---- MODULE Spec2Model ----
(***************************************************************************)
(* Foundation Grants page (pages/1_Foundation_Grants_Analysis.py):         *)
(* the memoized loader load_and_clean_data, the keyword categorizer        *)
(* categorize_grants and the head of main(), over a small file system.     *)
(*                                                                         *)
(* Text is a sequence of one-character strings, so that parsing a number,  *)
(* lower-casing and substring search are computed and not assumed.         *)
(* A grant file carries the columns the page reads (Grant Amount, Year     *)
(* Authorized, Grantmaker Name, Description), a grantmaker file carries    *)
(* Grantmaker Name, Total Assets, Total Giving, State; any one of them may *)
(* be absent from a file, and a file may be unreadable.                    *)
(***************************************************************************)
EXTENDS Integers, Sequences, FiniteSets, TLC

VARIABLES
    disk,          \* file name -> content of the CSV file on disk
    cache,         \* st.cache_data entry of load_and_clean_data
    pc,            \* position of the script run of main()
    ret,           \* the 4-tuple returned by the latest load_and_clean_data()
    reads,         \* pd.read_csv calls made by the latest load_and_clean_data()
    excStage,      \* stage in which the latest load raised ("none" if it did not)
    ui,            \* st.error messages of the current script run
    grants_data,   \* main's grants_data after line 189
    rendered,      \* what the current script run produced after the load: the
                   \* sections rendered and the functions called, in order
    grants_df,     \* the table handed to categorize_grants (pure-function runs)
    cat_first,     \* result of the first categorize_grants call on grants_df
    cat_second,    \* result of the second categorize_grants call
    cat_pc,        \* position of the categorize_grants run
    tr_data,       \* the series handed to calculate_transformations
    tr_result,     \* what calculate_transformations returned or raised
    fs,            \* the directories and asset files of the other pages
    page,          \* the page script that is running
    page_pc,       \* the statement of the page script to run next
    page_out,      \* the elements the page script has produced
    page_halt,     \* how the page script ended ("no" while it has not)
    sess_pc,       \* concurrent renders: position of each session's script run
    sess_ref,      \* concurrent renders: the object each session's grants_data names
    sess_table,    \* concurrent renders: the tables the sessions hold as their own
    cat_cache      \* concurrent renders: st.cache_data entry of categorize_grants

vars == <<disk, cache, pc, ret, reads, excStage, ui, grants_data, rendered,
          grants_df, cat_first, cat_second, cat_pc,
          tr_data, tr_result,
          fs, page, page_pc, page_out, page_halt,
          sess_pc, sess_ref, sess_table, cat_cache>>

mainVars == <<disk, cache, pc, ret, reads, excStage, ui, grants_data, rendered>>
catVars == <<grants_df, cat_first, cat_second, cat_pc>>
trVars == <<tr_data, tr_result>>
pageVars == <<fs, page, page_pc, page_out, page_halt>>
concVars == <<sess_pc, sess_ref, sess_table, cat_cache>>

\* the variables main() does not touch
sideVars == <<catVars, trVars, pageVars, concVars>>

----------------------------------------------------------------------------
(* Bounds *)

MaxGrantRows == 2
MaxGrantmakerRows == 2
MaxOddCells == 1

----------------------------------------------------------------------------
(* Optional values (Python None) *)

None == [isNone |-> TRUE]
Some(v) == [isNone |-> FALSE, v |-> v]

(* Cells of a DataFrame: a number, a string or NaN *)

NaN == [kind |-> "nan", n |-> 0, s |-> <<>>]
Num(n) == [kind |-> "num", n |-> n, s |-> <<>>]
Str(s) == [kind |-> "str", n |-> 0, s |-> s]

isna(cell) == cell.kind = "nan"

SeqsUpTo(S, n) == UNION {[1..k -> S] : k \in 0..n}

----------------------------------------------------------------------------
(* Numeric parsing, as pd.read_csv's type inference and pd.to_numeric do it *)
(* on the texts of the model: an optional minus sign followed by digits.    *)

Digits == {"0", "1", "2", "3", "4", "5", "6", "7", "8", "9"}

DigitVal(c) ==
    CASE c = "0" -> 0 [] c = "1" -> 1 [] c = "2" -> 2 [] c = "3" -> 3
      [] c = "4" -> 4 [] c = "5" -> 5 [] c = "6" -> 6 [] c = "7" -> 7
      [] c = "8" -> 8 [] c = "9" -> 9

AllDigits(t) == Len(t) > 0 /\ \A i \in 1..Len(t) : t[i] \in Digits

IsNumeric(t) ==
    IF Len(t) > 0 /\ t[1] = "-" THEN AllDigits(Tail(t)) ELSE AllDigits(t)

RECURSIVE ParseDigits(_, _)
ParseDigits(t, acc) ==
    IF t = <<>> THEN acc ELSE ParseDigits(Tail(t), 10 * acc + DigitVal(Head(t)))

ParseNumber(t) ==
    IF t[1] = "-" THEN 0 - ParseDigits(Tail(t), 0) ELSE ParseDigits(t, 0)

\* pd.to_numeric(..., errors='ignore'): a text that is no number stays as it is
to_numeric_ignore(cell) ==
    CASE cell.kind = "num" -> cell
      [] cell.kind = "nan" -> NaN
      [] cell.kind = "str" ->
            IF IsNumeric(cell.s) THEN Num(ParseNumber(cell.s)) ELSE cell

\* pd.to_numeric(..., errors='coerce') on one cell
to_numeric(cell) ==
    CASE cell.kind = "num" -> cell
      [] cell.kind = "nan" -> NaN
      [] cell.kind = "str" ->
            IF IsNumeric(cell.s) THEN Num(ParseNumber(cell.s)) ELSE NaN

----------------------------------------------------------------------------
(* The files *)

companies == <<"Corewell", "Henry Ford", "Kaiser", "Pittsburgh">>

CompanyNames == {companies[i] : i \in 1..Len(companies)}

grantmakers_path(company) ==
    CASE company = "Corewell" -> "Corewell_grantmakers.csv"
      [] company = "Henry Ford" -> "HenryFord_grantmakers.csv"
      [] company = "Kaiser" -> "Kaiser_grantmakers.csv"
      [] company = "Pittsburgh" -> "Pittsburgh_grantmakers.csv"

grants_path(company) ==
    CASE company = "Corewell" -> "Corewell_grants.csv"
      [] company = "Henry Ford" -> "HenryFord_grants.csv"
      [] company = "Kaiser" -> "Kaiser_grants.csv"
      [] company = "Pittsburgh" -> "Pittsburgh_grants.csv"

\* the order in which the dict literal of lines 45-62 reads the files
ReadOrder ==
    <<grantmakers_path("Corewell"), grants_path("Corewell"),
      grantmakers_path("Henry Ford"), grants_path("Henry Ford"),
      grantmakers_path("Kaiser"), grants_path("Kaiser"),
      grantmakers_path("Pittsburgh"), grants_path("Pittsburgh")>>

GrantPaths == {grants_path(c) : c \in CompanyNames}
GrantmakerPaths == {grantmakers_path(c) : c \in CompanyNames}
Paths == GrantPaths \cup GrantmakerPaths

GrantHeader == {"Grant Amount", "Year Authorized", "Grantmaker Name", "Description"}
GrantmakerHeader == {"Grantmaker Name", "Total Assets", "Total Giving", "State"}

\* x.replace(" ", ".") on the header names of the files
rename_column(x) ==
    CASE x = "Grant Amount" -> "Grant.Amount"
      [] x = "Year Authorized" -> "Year.Authorized"
      [] x = "Grantmaker Name" -> "Grantmaker.Name"
      [] x = "Total Assets" -> "Total.Assets"
      [] x = "Total Giving" -> "Total.Giving"
      [] OTHER -> x

\* texts a cell of a file may hold
T_50 == <<"5", "0">>
T_7 == <<"7">>
T_neg5 == <<"-", "5">>
T_abc == <<"a", "b", "c">>
T_2020 == <<"2", "0", "2", "0">>
T_1000 == <<"1", "0", "0", "0">>
T_500 == <<"5", "0", "0">>
T_empty == <<>>
T_A == <<"A">>
T_B == <<"B">>
T_MI == <<"M", "I">>
T_art == <<"a", "r", "t">>

CellTexts(h) ==
    CASE h = "Grant Amount" -> {T_50, T_7, T_abc, T_neg5}
      [] h = "Year Authorized" -> {T_2020, T_empty}
      [] h = "Grantmaker Name" -> {T_A, T_B}
      [] h = "Description" -> {T_art}
      [] h = "Total Assets" -> {T_1000, T_abc}
      [] h = "Total Giving" -> {T_500, T_empty}
      [] h = "State" -> {T_MI}

Unreadable == [readable |-> FALSE, header |-> {}, rows |-> <<>>]

\* the text of a column in an ordinary row
OrdinaryText(h) ==
    CASE h = "Grant Amount" -> T_50
      [] h = "Year Authorized" -> T_2020
      [] h = "Grantmaker Name" -> T_A
      [] h = "Description" -> T_art
      [] h = "Total Assets" -> T_1000
      [] h = "Total Giving" -> T_500
      [] h = "State" -> T_MI

\* rows that differ from the ordinary row in at most MaxOddCells cells
RowsOver(header) ==
    {r \in [header -> UNION {CellTexts(h) : h \in header}] :
        /\ \A h \in header : r[h] \in CellTexts(h)
        /\ Cardinality({h \in header : r[h] # OrdinaryText(h)}) <= MaxOddCells}

\* a readable file: the full header or the header without one column
FilesOver(fullHeader, maxRows) ==
    {[readable |-> TRUE, header |-> fullHeader, rows |-> rs] :
        rs \in SeqsUpTo(RowsOver(fullHeader), maxRows)}
    \cup
    {[readable |-> TRUE, header |-> fullHeader \ {h}, rows |-> <<>>] :
        h \in fullHeader}

GrantFiles == FilesOver(GrantHeader, MaxGrantRows) \cup {Unreadable}
GrantmakerFiles == FilesOver(GrantmakerHeader, MaxGrantmakerRows) \cup {Unreadable}

\* the files at the start: one ordinary row each
BaseGrantFile ==
    [readable |-> TRUE, header |-> GrantHeader,
     rows |-> << [h \in GrantHeader |-> OrdinaryText(h)] >>]

BaseGrantmakerFile ==
    [readable |-> TRUE, header |-> GrantmakerHeader,
     rows |-> << [h \in GrantmakerHeader |-> OrdinaryText(h)] >>]

BaseFile(p) == IF p \in GrantPaths THEN BaseGrantFile ELSE BaseGrantmakerFile

----------------------------------------------------------------------------
(* pd.read_csv(path).rename(columns=lambda x: x.replace(" ", "."))         *)

ColumnIsNumeric(file, h) ==
    \A i \in 1..Len(file.rows) :
        file.rows[i][h] = T_empty \/ IsNumeric(file.rows[i][h])

ParseCell(file, h, i) ==
    LET t == file.rows[i][h] IN
    IF t = T_empty THEN NaN
    ELSE IF ColumnIsNumeric(file, h) THEN Num(ParseNumber(t))
    ELSE Str(t)

read_csv(file) ==
    LET columns == {rename_column(h) : h \in file.header}
        HeaderOf(c) == CHOOSE h \in file.header : rename_column(h) = c
    IN  [columns |-> columns,
         rows |-> [i \in 1..Len(file.rows) |->
                     [c \in columns |-> ParseCell(file, HeaderOf(c), i)]]]

----------------------------------------------------------------------------
(* DataFrame operations used by load_and_clean_data *)

with_column(df, col, cell) ==
    [columns |-> df.columns \cup {col},
     rows |-> [i \in 1..Len(df.rows) |->
                 [c \in df.columns \cup {col} |->
                     IF c = col THEN cell ELSE df.rows[i][c]]]]

\* the columns left as they were read
coerce_numeric_skipped(df, cols) == df

\* for col in cols: if col in df.columns: df[col] = pd.to_numeric(df[col], errors='coerce')
coerce_numeric(df, cols) ==
    [columns |-> df.columns,
     rows |-> [i \in 1..Len(df.rows) |->
                 [c \in df.columns |->
                     IF c \in cols THEN to_numeric(df.rows[i][c])
                     ELSE df.rows[i][c]]]]

\* a lookup that skips the labels it does not find
missing_columns_ignored(df, subset) == {}

\* the labels of subset that df.dropna(subset=...) and df[[...]] do not find
\* among the columns; they raise KeyError when there is one
missing_columns(df, subset) == subset \ df.columns

\* dropna with how='all': a row goes only when every column of subset is NaN
dropna_how_all(df, subset) ==
    LET complete(r) == \E c \in subset : ~isna(r[c])
    IN  [columns |-> df.columns, rows |-> SelectSeq(df.rows, complete)]

\* df.dropna(subset=subset), defined when subset is among the columns
dropna(df, subset) ==
    LET complete(r) == \A c \in subset : ~isna(r[c])
    IN  [columns |-> df.columns, rows |-> SelectSeq(df.rows, complete)]

RECURSIVE Flatten(_)
Flatten(ss) == IF ss = <<>> THEN <<>> ELSE Head(ss) \o Flatten(Tail(ss))

merge_columns == {"Grantmaker.Name", "Total.Assets", "Total.Giving", "State"}
merge_attributes == {"Total.Assets", "Total.Giving", "State"}

\* the merge with how='inner': a left row without a match is dropped
left_merge_inner(left, right) ==
    LET joined(l) ==
            LET same_key(r) == r["Grantmaker.Name"] = l["Grantmaker.Name"]
                matches == SelectSeq(right.rows, same_key)
            IN  [j \in 1..Len(matches) |->
                    l @@ [c \in merge_attributes |-> matches[j][c]]]
    IN  [columns |-> left.columns \cup merge_attributes,
         rows |-> Flatten([i \in 1..Len(left.rows) |-> joined(left.rows[i])])]

\* the merge with its rows in the reverse of the left order
left_merge_reversed(left, right) ==
    LET joined(l) ==
            LET same_key(r) == r["Grantmaker.Name"] = l["Grantmaker.Name"]
                matches == SelectSeq(right.rows, same_key)
            IN  IF matches = <<>>
                THEN << l @@ [c \in merge_attributes |-> NaN] >>
                ELSE [j \in 1..Len(matches) |->
                        l @@ [c \in merge_attributes |-> matches[j][c]]]
    IN  [columns |-> left.columns \cup merge_attributes,
         rows |-> Flatten([i \in 1..Len(left.rows) |->
                             joined(left.rows[Len(left.rows) + 1 - i])])]

\* left.merge(right[merge_columns], on='Grantmaker.Name', how='left'):
\* one output row per (left row, matching right row) in left order, and one
\* row with NaN attributes for a left row without a match.  The grant files
\* have no column named like a grantmaker attribute, so no suffix is applied.
left_merge(left, right) ==
    LET joined(l) ==
            LET same_key(r) == r["Grantmaker.Name"] = l["Grantmaker.Name"]
                matches == SelectSeq(right.rows, same_key)
            IN  IF matches = <<>>
                THEN << l @@ [c \in merge_attributes |-> NaN] >>
                ELSE [j \in 1..Len(matches) |->
                        l @@ [c \in merge_attributes |-> matches[j][c]]]
    IN  [columns |-> left.columns \cup merge_attributes,
         rows |-> Flatten([i \in 1..Len(left.rows) |-> joined(left.rows[i])])]

\* pd.concat(frames, ignore_index=True): rows in list order, the union of the
\* columns, NaN where a frame lacks a column
concat(frames) ==
    LET columns == UNION {frames[i].columns : i \in 1..Len(frames)}
        widen(df) == [i \in 1..Len(df.rows) |->
                        [c \in columns |->
                            IF c \in df.columns THEN df.rows[i][c] ELSE NaN]]
    IN  [columns |-> columns,
         rows |-> Flatten([i \in 1..Len(frames) |-> widen(frames[i])])]

----------------------------------------------------------------------------
(* Exceptions: the type, str(e) and the stage of the load that raised *)

Raise(type, text, stage) == [raised |-> TRUE, type |-> type, text |-> text, stage |-> stage]

numeric_cols_grants == {"Grant.Amount", "Year.Authorized"}
numeric_cols_data == {"Total.Assets", "Total.Giving"}

\* the report with grants_final taken before the rows are dropped
CleaningReport_final_before_drop(data, before_drop, grants_clean, before_drop_gm, grantmakers_clean) ==
    [grants_original |-> Len(data.grants.rows),
     grantmakers_original |-> Len(data.grantmakers.rows),
     grants_removed |-> before_drop - Len(grants_clean.rows),
     grants_final |-> before_drop,
     grantmakers_removed |-> before_drop_gm - Len(grantmakers_clean.rows),
     grantmakers_final |-> Len(grantmakers_clean.rows)]

\* the report with the difference of line 89 taken the other way round
CleaningReport_removed_reversed(data, before_drop, grants_clean, before_drop_gm, grantmakers_clean) ==
    [grants_original |-> Len(data.grants.rows),
     grantmakers_original |-> Len(data.grantmakers.rows),
     grants_removed |-> Len(grants_clean.rows) - before_drop,
     grants_final |-> Len(grants_clean.rows),
     grantmakers_removed |-> before_drop_gm - Len(grantmakers_clean.rows),
     grantmakers_final |-> Len(grantmakers_clean.rows)]

\* the cleaning_report dict of one company: lines 73-76, 89-90 and 103-104
CleaningReport(data, before_drop, grants_clean, before_drop_gm, grantmakers_clean) ==
    [grants_original |-> Len(data.grants.rows),
     grantmakers_original |-> Len(data.grantmakers.rows),
     grants_removed |-> before_drop - Len(grants_clean.rows),
     grants_final |-> Len(grants_clean.rows),
     grantmakers_removed |-> before_drop_gm - Len(grantmakers_clean.rows),
     grantmakers_final |-> Len(grantmakers_clean.rows)]

\* lines 79-90 for the grants and 93-104 for the grantmakers, from the coerced
\* table on: the row count before the drop and the table after it, or the
\* KeyError of dropna
drop_incomplete(df_numeric, subset) ==
    IF missing_columns(df_numeric, subset) # {}
    THEN Raise("KeyError", missing_columns(df_numeric, subset), "clean")
    ELSE [raised |-> FALSE,
          before_drop |-> Len(df_numeric.rows),
          clean |-> dropna(df_numeric, subset)]

\* every table tagged with the first company
clean_table_same_tag(df, company_name, numeric_cols) ==
    drop_incomplete(
        coerce_numeric(with_column(df, "Company", Str(<<companies[1]>>)), numeric_cols),
        numeric_cols)

\* copy, tag with the company, coerce the numeric columns, drop
clean_table(df, company_name, numeric_cols) ==
    drop_incomplete(
        coerce_numeric(with_column(df, "Company", Str(<<company_name>>)), numeric_cols),
        numeric_cols)

\* the merge with the grantmaker table as it was read
merge_and_store_raw(data, g, gm) ==
    IF g.raised THEN g
    ELSE IF gm.raised THEN gm
    ELSE IF missing_columns(gm.clean, merge_columns) # {}
    THEN Raise("KeyError", missing_columns(gm.clean, merge_columns), "merge")
    ELSE IF missing_columns(g.clean, {"Grantmaker.Name"}) # {}
    THEN Raise("KeyError", {"Grantmaker.Name"}, "merge")
    ELSE [raised |-> FALSE,
          grants_clean |-> g.clean,
          grantmakers_clean |-> gm.clean,
          merged_data |-> left_merge(g.clean, data.grantmakers),
          cleaning_report |->
              CleaningReport(data, g.before_drop, g.clean, gm.before_drop, gm.clean)]

\* lines 106-118 for one company, given the outcome of the two cleanings
\* (the grants are cleaned first)
merge_and_store(data, g, gm) ==
    IF g.raised THEN g
    ELSE IF gm.raised THEN gm
    ELSE IF missing_columns(gm.clean, merge_columns) # {}
    THEN Raise("KeyError", missing_columns(gm.clean, merge_columns), "merge")
    ELSE IF missing_columns(g.clean, {"Grantmaker.Name"}) # {}
    THEN Raise("KeyError", {"Grantmaker.Name"}, "merge")
    ELSE [raised |-> FALSE,
          grants_clean |-> g.clean,
          grantmakers_clean |-> gm.clean,
          merged_data |-> left_merge(g.clean, gm.clean),
          cleaning_report |->
              CleaningReport(data, g.before_drop, g.clean, gm.before_drop, gm.clean)]

\* the body of the for loop, lines 71-118, for one company
ProcessCompany(company_name, data) ==
    merge_and_store(data,
        clean_table(data.grants, company_name, numeric_cols_grants),
        clean_table(data.grantmakers, company_name, numeric_cols_data))

\* the lists assigned instead of appended to
store_overwrite(acc, company_name, r) ==
    [raised |-> FALSE,
     all_grants_clean |-> <<r.grants_clean>>,
     all_grantmakers_clean |-> <<r.grantmakers_clean>>,
     all_merged_data |-> <<r.merged_data>>,
     cleaning_reports |-> acc.cleaning_reports @@ (company_name :> r.cleaning_report)]

\* lines 115-118: the results of one company appended to the lists
store(acc, company_name, r) ==
    [raised |-> FALSE,
     all_grants_clean |-> Append(acc.all_grants_clean, r.grants_clean),
     all_grantmakers_clean |-> Append(acc.all_grantmakers_clean, r.grantmakers_clean),
     all_merged_data |-> Append(acc.all_merged_data, r.merged_data),
     cleaning_reports |-> acc.cleaning_reports @@ (company_name :> r.cleaning_report)]

\* the for loop of lines 71-118 from company i on; acc holds the three lists
\* and the reports built so far, r is the outcome of company i
RECURSIVE ProcessCompanies(_, _, _)
next_company(data, i, acc, r) ==
    IF r.raised THEN r ELSE ProcessCompanies(data, i + 1, store(acc, companies[i], r))

ProcessCompanies(data, i, acc) ==
    IF i > Len(companies) THEN acc
    ELSE next_company(data, i, acc, ProcessCompany(companies[i], data[companies[i]]))

EmptyLists ==
    [raised |-> FALSE, all_grants_clean |-> <<>>, all_grantmakers_clean |-> <<>>,
     all_merged_data |-> <<>>, cleaning_reports |-> <<>>]

NoneResult == <<None, None, None, None>>

\* every company given the grantmakers file of the first
read_all_first_grantmakers(d) ==
    [c \in CompanyNames |->
        [grantmakers |-> read_csv(d[grantmakers_path(companies[1])]),
         grants |-> read_csv(d[grants_path(c)])]]

\* lines 45-62: the companies dict, when every file is readable
read_all(d) ==
    [c \in CompanyNames |->
        [grantmakers |-> read_csv(d[grantmakers_path(c)]),
         grants |-> read_csv(d[grants_path(c)])]]

\* the first file of ReadOrder that cannot be read, 0 when there is none
first_unreadable(d) ==
    IF \A i \in 1..Len(ReadOrder) : d[ReadOrder[i]].readable THEN 0
    ELSE CHOOSE i \in 1..Len(ReadOrder) :
            /\ ~d[ReadOrder[i]].readable
            /\ \A j \in 1..(i - 1) : d[ReadOrder[j]].readable

\* lines 120-125 after the loop: the exception of the loop, or the four results
combine(done) ==
    IF done.raised
    THEN [exc |-> done, reads |-> Len(ReadOrder), value |-> NoneResult]
    ELSE [exc |-> [raised |-> FALSE, stage |-> "none"],
          reads |-> Len(ReadOrder),
          value |-> <<Some(concat(done.all_grants_clean)),
                      Some(concat(done.all_grantmakers_clean)),
                      Some(concat(done.all_merged_data)),
                      Some(done.cleaning_reports)>>]

read_failure(first) ==
    [exc |-> Raise("FileNotFoundError", {ReadOrder[first]}, "read"),
     reads |-> first, value |-> NoneResult]

\* the try block of lines 43-125 on the files d: what it returns or raises,
\* and the number of pd.read_csv calls it makes
TryBlock(d) ==
    IF first_unreadable(d) # 0
    THEN read_failure(first_unreadable(d))
    ELSE combine(ProcessCompanies(read_all(d), 1, EmptyLists))

\* the except clause of lines 126-128
ExceptClause(exc) ==
    [value |-> NoneResult,
     messages |-> << [text |-> "Error loading data: ", detail |-> exc.text] >>]

\* what one uncached execution delivers, t being the outcome of the try block
outcome(t) ==
    IF t.exc.raised
    THEN [value |-> ExceptClause(t.exc).value,
          messages |-> ExceptClause(t.exc).messages,
          reads |-> t.reads, stage |-> t.exc.stage]
    ELSE [value |-> t.value, messages |-> <<>>,
          reads |-> t.reads, stage |-> "none"]

\* one uncached execution of load_and_clean_data on the files d
load_body(d) == outcome(TryBlock(d))

----------------------------------------------------------------------------
(* categorize_grants, lines 130-154 *)

LowerChar(c) ==
    CASE c = "A" -> "a"
      [] c = "B" -> "b"
      [] c = "C" -> "c"
      [] c = "D" -> "d"
      [] c = "E" -> "e"
      [] c = "F" -> "f"
      [] c = "G" -> "g"
      [] c = "H" -> "h"
      [] c = "I" -> "i"
      [] c = "J" -> "j"
      [] c = "K" -> "k"
      [] c = "L" -> "l"
      [] c = "M" -> "m"
      [] c = "N" -> "n"
      [] c = "O" -> "o"
      [] c = "P" -> "p"
      [] c = "Q" -> "q"
      [] c = "R" -> "r"
      [] c = "S" -> "s"
      [] c = "T" -> "t"
      [] c = "U" -> "u"
      [] c = "V" -> "v"
      [] c = "W" -> "w"
      [] c = "X" -> "x"
      [] c = "Y" -> "y"
      [] c = "Z" -> "z"
      [] OTHER -> c

lower(t) == [i \in 1..Len(t) |-> LowerChar(t[i])]

\* word is the whole of text or stands in it between spaces
Contains_whole_word(text, word) ==
    \E i \in 0..(Len(text) - Len(word)) :
        /\ SubSeq(text, i + 1, i + Len(word)) = word
        /\ i = 0 \/ text[i] = " "
        /\ i + Len(word) = Len(text) \/ text[i + Len(word) + 1] = " "

\* word in text
Contains(text, word) ==
    \E i \in 0..(Len(text) - Len(word)) : SubSeq(text, i + 1, i + Len(word)) = word

any_word_in(words, text) == \E word \in words : Contains(text, word)

DigitChar(k) ==
    CASE k = 0 -> "0" [] k = 1 -> "1" [] k = 2 -> "2" [] k = 3 -> "3"
      [] k = 4 -> "4" [] k = 5 -> "5" [] k = 6 -> "6" [] k = 7 -> "7"
      [] k = 8 -> "8" [] k = 9 -> "9"

RECURSIVE FormatNat(_)
FormatNat(n) == IF n < 10 THEN <<DigitChar(n)>> ELSE Append(FormatNat(n \div 10), DigitChar(n % 10))

\* str(desc) of a cell that is not NaN
str(cell) ==
    IF cell.kind = "str" THEN cell.s
    ELSE IF cell.n < 0 THEN <<"-">> \o FormatNat(0 - cell.n) ELSE FormatNat(cell.n)

healthcare_words ==
    {<<"h", "e", "a", "l", "t", "h">>,
     <<"m", "e", "d", "i", "c", "a", "l">>,
     <<"h", "o", "s", "p", "i", "t", "a", "l">>,
     <<"c", "l", "i", "n", "i", "c">>,
     <<"p", "a", "t", "i", "e", "n", "t">>}

education_words ==
    {<<"e", "d", "u", "c", "a", "t", "i", "o", "n">>,
     <<"s", "c", "h", "o", "o", "l">>,
     <<"s", "t", "u", "d", "e", "n", "t">>,
     <<"s", "c", "h", "o", "l", "a", "r", "s", "h", "i", "p">>,
     <<"u", "n", "i", "v", "e", "r", "s", "i", "t", "y">>}

community_words ==
    {<<"c", "o", "m", "m", "u", "n", "i", "t", "y">>,
     <<"s", "o", "c", "i", "a", "l">>,
     <<"d", "e", "v", "e", "l", "o", "p", "m", "e", "n", "t">>,
     <<"s", "e", "r", "v", "i", "c", "e">>}

research_words ==
    {<<"r", "e", "s", "e", "a", "r", "c", "h">>,
     <<"s", "c", "i", "e", "n", "c", "e">>,
     <<"s", "t", "u", "d", "y">>}

arts_words ==
    {<<"a", "r", "t">>,
     <<"c", "u", "l", "t", "u", "r", "e">>,
     <<"m", "u", "s", "e", "u", "m">>,
     <<"m", "u", "s", "i", "c">>}

environment_words ==
    {<<"e", "n", "v", "i", "r", "o", "n", "m", "e", "n", "t">>,
     <<"c", "o", "n", "s", "e", "r", "v", "a", "t", "i", "o", "n">>,
     <<"s", "u", "s", "t", "a", "i", "n", "a", "b", "i", "l", "i", "t", "y">>}


Label(name) == Str(<<name>>)

\* the chain without its final else: no label when no set matches
categorize_description_no_else(desc) ==
    IF isna(desc) THEN Label("Uncategorized")
    ELSE LET desc_lower == lower(str(desc)) IN
         IF any_word_in(healthcare_words, desc_lower) THEN Label("Healthcare")
         ELSE IF any_word_in(education_words, desc_lower) THEN Label("Education")
         ELSE IF any_word_in(community_words, desc_lower) THEN Label("Community Development")
         ELSE IF any_word_in(research_words, desc_lower) THEN Label("Research")
         ELSE IF any_word_in(arts_words, desc_lower) THEN Label("Arts & Culture")
         ELSE IF any_word_in(environment_words, desc_lower) THEN Label("Environment")
         ELSE NaN

\* the chain with the Education test ahead of the Healthcare test
categorize_description_education_first(desc) ==
    IF isna(desc) THEN Label("Uncategorized")
    ELSE LET desc_lower == lower(str(desc)) IN
         IF any_word_in(education_words, desc_lower) THEN Label("Education")
         ELSE IF any_word_in(healthcare_words, desc_lower) THEN Label("Healthcare")
         ELSE IF any_word_in(community_words, desc_lower) THEN Label("Community Development")
         ELSE IF any_word_in(research_words, desc_lower) THEN Label("Research")
         ELSE IF any_word_in(arts_words, desc_lower) THEN Label("Arts & Culture")
         ELSE IF any_word_in(environment_words, desc_lower) THEN Label("Environment")
         ELSE Label("Other")

categorize_description(desc) ==
    IF isna(desc) THEN Label("Uncategorized")
    ELSE LET desc_lower == lower(str(desc)) IN
         IF any_word_in(healthcare_words, desc_lower) THEN Label("Healthcare")
         ELSE IF any_word_in(education_words, desc_lower) THEN Label("Education")
         ELSE IF any_word_in(community_words, desc_lower) THEN Label("Community Development")
         ELSE IF any_word_in(research_words, desc_lower) THEN Label("Research")
         ELSE IF any_word_in(arts_words, desc_lower) THEN Label("Arts & Culture")
         ELSE IF any_word_in(environment_words, desc_lower) THEN Label("Environment")
         ELSE Label("Other")

\* the rows without a description left out of the result
categorize_grants_described_only(df) ==
    LET described(r) == ~isna(r["Description"])
        kept == SelectSeq(df.rows, described)
    IN  [columns |-> df.columns \cup {"Category"},
         rows |-> [i \in 1..Len(kept) |->
                     [c \in df.columns \cup {"Category"} |->
                         IF c = "Category"
                         THEN categorize_description(kept[i]["Description"])
                         ELSE kept[i][c]]]]

\* grants_df['Category'] = grants_df['Description'].apply(categorize_description),
\* defined when grants_df has a Description column
categorize_grants(df) ==
    [columns |-> df.columns \cup {"Category"},
     rows |-> [i \in 1..Len(df.rows) |->
                 [c \in df.columns \cup {"Category"} |->
                     IF c = "Category"
                     THEN categorize_description(df.rows[i]["Description"])
                     ELSE df.rows[i][c]]]]

----------------------------------------------------------------------------
(* calculate_transformations, lines 156-170.  A transformed value is kept   *)
(* as the function applied and its argument: the page reads the transformed *)
(* series only to plot and to summarise them.                               *)

\* data > 0 is False for NaN
is_positive(cell) == cell.kind = "num" /\ cell.n > 0

\* data[~(data <= 0)]: NaN is kept
positive_values_keep_nan(data) ==
    LET keep(cell) == ~(cell.kind = "num" /\ cell.n <= 0)
    IN  SelectSeq(data, keep)

\* line 159: data[data > 0]
positive_values(data) == SelectSeq(data, is_positive)

is_constant(x) == \A i \in 1..Len(x) : x[i] = x[1]

apply_elementwise(fn, x) == [i \in 1..Len(x) |-> [fn |-> fn, arg |-> x[i]]]

\* scipy.stats.boxcox(x) as line 160 uses it: of an empty x it returns x alone,
\* which the unpacking into two names rejects; of a constant x, and of an x
\* with a value that is not positive, it raises
boxcox(x) ==
    IF x = <<>>
    THEN Raise("ValueError", {"not enough values to unpack (expected 2, got 0)"}, "transform")
    ELSE IF is_constant(x)
    THEN Raise("ValueError", {"Data must not be constant."}, "transform")
    ELSE IF \E i \in 1..Len(x) : x[i].kind = "num" /\ x[i].n <= 0
    THEN Raise("ValueError", {"Data must be positive."}, "transform")
    ELSE [raised |-> FALSE, transformed |-> apply_elementwise("boxcox", x),
          lmbda |-> "fitted"]

\* lines 160-170, given the filtered series and the outcome of boxcox
transformations_of(grant_amounts, bc) ==
    IF bc.raised THEN bc
    ELSE [raised |-> FALSE,
          original |-> grant_amounts,
          boxcox |-> bc.transformed,
          lambda |-> bc.lmbda,
          log |-> apply_elementwise("log", grant_amounts),
          log10 |-> apply_elementwise("log10", grant_amounts)]

calculate_transformations(data) ==
    transformations_of(positive_values(data), boxcox(positive_values(data)))

----------------------------------------------------------------------------
(* The sections of main() after line 189.  A section is recorded by its     *)
(* name when it has rendered; an exception that main() does not catch ends  *)
(* the script run.  The files carry further columns (Recipient Name,        *)
(* Primary Subject) that only the charts read; the charts are taken to      *)
(* render.                                                                  *)

Section(events) == [raised |-> FALSE, events |-> events]
Aborted(events) == [raised |-> TRUE, events |-> events]

column(df, col) == [i \in 1..Len(df.rows) |-> df.rows[i][col]]

\* lines 191-261 and tabs 1-5 (lines 277-735): the summary metrics, then the
\* cleaning table of tab 1, whose retention percentages divide by the original
\* row counts (lines 292 and 296), then the other tabs
render_head(cleaning_report) ==
    IF \E c \in DOMAIN cleaning_report :
          \/ cleaning_report[c].grants_original = 0
          \/ cleaning_report[c].grantmakers_original = 0
    THEN Aborted(<<"summary">>)
    ELSE Section(<<"summary", "tab1", "tab2", "tab3", "tab4", "tab5">>)

\* tab 6, lines 738-832, given what line 743 returned
tab6_with(transformations) ==
    IF transformations.raised
    THEN Aborted(<<"calculate_transformations">>)
    ELSE Section(<<"calculate_transformations", "tab6">>)

render_tab6(filtered_grants) ==
    tab6_with(calculate_transformations(column(filtered_grants, "Grant.Amount")))

RECURSIVE sorted_insert(_, _)
sorted_insert(s, x) ==
    IF s = <<>> THEN <<x>>
    ELSE IF x <= Head(s) THEN <<x>> \o s
    ELSE <<Head(s)>> \o sorted_insert(Tail(s), x)

RECURSIVE sort(_)
sort(s) == IF s = <<>> THEN <<>> ELSE sorted_insert(sort(Tail(s)), Head(s))

\* twice Series.median() of the numbers of a column (NaN is skipped); the
\* median of no number is NaN
numbers_of(cells) ==
    LET is_number(cell) == cell.kind = "num"
        present == SelectSeq(cells, is_number)
    IN  [i \in 1..Len(present) |-> present[i].n]

twice_median(numbers) ==
    LET s == sort(numbers)
        n == Len(s)
    IN  s[(n + 1) \div 2] + s[(n + 2) \div 2]

\* lines 842-844: the Grant.Amount of the rows at or above, and below, the
\* median of Total.Assets; a comparison with NaN is False
high_assets(merged_data) ==
    LET assets == numbers_of(column(merged_data, "Total.Assets"))
        high(r) == /\ assets # <<>>
                   /\ r["Total.Assets"].kind = "num"
                   /\ 2 * r["Total.Assets"].n >= twice_median(assets)
                   /\ ~isna(r["Grant.Amount"])
    IN  SelectSeq(merged_data.rows, high)

low_assets(merged_data) ==
    LET assets == numbers_of(column(merged_data, "Total.Assets"))
        low(r) == /\ assets # <<>>
                  /\ r["Total.Assets"].kind = "num"
                  /\ 2 * r["Total.Assets"].n < twice_median(assets)
                  /\ ~isna(r["Grant.Amount"])
    IN  SelectSeq(merged_data.rows, low)

\* lines 846-893: the t-test and the Mann-Whitney test run when both groups
\* have a row; nothing is shown otherwise
render_H1(merged_data) ==
    IF Len(high_assets(merged_data)) > 0 /\ Len(low_assets(merged_data)) > 0
    THEN Section(<<"H1">>)
    ELSE Section(<<>>)

\* the groups of groupby(col): the values of the column that are not NaN
groups(df, col) == {df.rows[i][col] : i \in 1..Len(df.rows)} \ {NaN}

\* lines 896-947: stats.pearsonr raises ValueError for fewer than two points
render_H2(filtered_grants) ==
    IF Cardinality(groups(filtered_grants, "Grantmaker.Name")) < 2
    THEN Aborted(<<>>)
    ELSE Section(<<"H2">>)

\* lines 950-968: the ANOVA runs for more than two categories; nothing is
\* shown otherwise
render_H3(filtered_grants) ==
    IF Cardinality(groups(filtered_grants, "Category")) > 2
    THEN Section(<<"H3">>)
    ELSE Section(<<>>)

\* one section after the other, up to the first that raises
then(first, second) ==
    IF first.raised THEN first
    ELSE [raised |-> second.raised, events |-> first.events \o second.events]

\* tab 7, lines 835-970
render_tab7(merged_data, filtered_grants) ==
    IF merged_data.isNone \/ Len(merged_data.v.rows) = 0
    THEN Section(<<"warning: Merged data not available for hypothesis testing", "tab7">>)
    ELSE then(then(then(render_H1(merged_data.v), render_H2(filtered_grants)),
                   render_H3(filtered_grants)),
              Section(<<"tab7">>))

\* tabs 8 and 9, lines 973-1153
render_tail == Section(<<"tab8", "tab9">>)

----------------------------------------------------------------------------
(* st.cache_data of load_and_clean_data: one entry, the function has no     *)
(* argument; the entry holds the returned value and the st elements the     *)
(* function emitted, which a hit replays                                    *)

\* a cache that never holds an entry
cache_lookup_miss(c) == None

cache_lookup(c) == c

NotCalled == <<>>

(* main(), lines 180-189 *)

\* a call answered from the cache: the stored value, the stored st elements
\* replayed, no file read
from_cache(hit) ==
    [value |-> hit.v.value, messages |-> hit.v.messages, reads |-> 0,
     stage |-> hit.v.stage, entry |-> hit]

\* a cache that stores only the outcome of a run that returned tables
from_run_success_only(run) ==
    [value |-> run.value, messages |-> run.messages, reads |-> run.reads,
     stage |-> run.stage,
     entry |-> IF run.value = NoneResult THEN None
               ELSE Some([value |-> run.value, messages |-> run.messages,
                          stage |-> run.stage])]

\* a call that ran the function: its outcome, stored as the new entry
from_run(run) ==
    [value |-> run.value, messages |-> run.messages, reads |-> run.reads,
     stage |-> run.stage,
     entry |-> Some([value |-> run.value, messages |-> run.messages,
                     stage |-> run.stage])]

answer(hit, d) == IF ~hit.isNone THEN from_cache(hit) ELSE from_run(load_body(d))

\* load_and_clean_data() with cache entry c and files d
load_and_clean_data(c, d) == answer(cache_lookup(c), d)

Returned(call) ==
    /\ ret' = call.value
    /\ ui' = ui \o call.messages
    /\ reads' = call.reads
    /\ excStage' = call.stage
    /\ cache' = call.entry

\* lines 181-182: grants_data, ... = load_and_clean_data()
MainLoadData ==
    /\ pc = "start"
    /\ Returned(load_and_clean_data(cache, disk))
    /\ pc' = "check"
    /\ UNCHANGED <<disk, grants_data, rendered>>
    /\ UNCHANGED sideVars

\* the test of line 184 without the return of line 186
after_load_no_return(loaded_grants) == "categorize"

\* where main() continues after line 184: it returns when there is no table
after_load(loaded_grants) == IF loaded_grants.isNone THEN "done" ELSE "categorize"

\* lines 184-186
MainCheck ==
    /\ pc = "check"
    /\ ui' = IF ret[1].isNone
             THEN Append(ui, [text |-> "Failed to load data. Please check the file paths.",
                              detail |-> {}])
             ELSE ui
    /\ pc' = after_load(ret[1])
    /\ UNCHANGED <<disk, cache, ret, reads, excStage, grants_data, rendered>>
    /\ UNCHANGED sideVars

\* line 189: grants_data = categorize_grants(grants_data); a table without a
\* Description column raises KeyError, which main does not catch
MainCategorize ==
    /\ pc = "categorize"
    /\ IF ~ret[1].isNone /\ "Description" \in ret[1].v.columns
       THEN /\ grants_data' = Some(categorize_grants(ret[1].v))
            /\ pc' = "render"
       ELSE /\ grants_data' = None
            /\ pc' = "crashed"
    /\ rendered' = Append(rendered, "categorize_grants")
    /\ UNCHANGED <<disk, cache, ret, reads, excStage, ui>>
    /\ UNCHANGED sideVars

\* the script run goes on to the section at next, or ends on the exception
Advance(section, next) ==
    /\ rendered' = rendered \o section.events
    /\ pc' = IF section.raised THEN "crashed" ELSE next
    /\ UNCHANGED <<disk, cache, ret, reads, excStage, ui, grants_data>>
    /\ UNCHANGED sideVars

\* lines 191-735: the summary and tabs 1-5
MainRender ==
    /\ pc = "render"
    /\ Advance(render_head(ret[4].v), "tab6")

\* lines 738-832; filtered_grants is grants_data (line 200)
MainTab6 ==
    /\ pc = "tab6"
    /\ Advance(render_tab6(grants_data.v), "tab7")

\* lines 835-970
MainTab7 ==
    /\ pc = "tab7"
    /\ Advance(render_tab7(ret[3], grants_data.v), "tail")

\* lines 973-1153
MainTail ==
    /\ pc = "tail"
    /\ Advance(render_tail, "done")

\* a new script run of the page
Rerun ==
    /\ pc \in {"done", "crashed"}
    /\ pc' = "start"
    /\ ret' = NotCalled
    /\ reads' = 0
    /\ excStage' = "none"
    /\ ui' = <<>>
    /\ grants_data' = None
    /\ rendered' = <<>>
    /\ UNCHANGED <<disk, cache>>
    /\ UNCHANGED sideVars

\* Somebody modifies a source file on disk: removes it, or puts the ordinary
\* file in its place.  A script run reads the files only in its first step,
\* so a modification during a run has the effect of one made before the next
\* run; at most one file differs from the ordinary files at a time.
WriteFile ==
    /\ pc = "start"
    /\ \E p \in Paths :
         \E f \in {Unreadable, BaseFile(p)} :
            /\ \A q \in Paths \ {p} : disk[q] = BaseFile(q)
            /\ f # disk[p]
            /\ disk' = [disk EXCEPT ![p] = f]
    /\ UNCHANGED <<cache, pc, ret, reads, excStage, ui, grants_data, rendered>>
    /\ UNCHANGED sideVars

\* st.cache_data.clear(), or the cache of a restarted process.  A script run
\* looks the entry up only in its first step, so a clearing during a run has
\* the effect of one made before the next run.
ClearCache ==
    /\ pc = "start"
    /\ ~cache.isNone
    /\ cache' = None
    /\ UNCHANGED <<disk, pc, ret, reads, excStage, ui, grants_data, rendered>>
    /\ UNCHANGED sideVars

CatIdle ==
    /\ grants_df = [columns |-> {}, rows |-> <<>>]
    /\ cat_first = None
    /\ cat_second = None
    /\ cat_pc = "off"

TrIdle ==
    /\ tr_data = <<>>
    /\ tr_result = None

PageIdle ==
    /\ fs = [dirs |-> {}, files |-> {}]
    /\ page = "none"
    /\ page_pc = 0
    /\ page_out = <<>>
    /\ page_halt = "no"

ConcIdle ==
    /\ sess_pc = <<>>
    /\ sess_ref = <<>>
    /\ sess_table = <<>>
    /\ cat_cache = None

\* main() is not running
MainIdle ==
    /\ disk = [p \in Paths |-> BaseFile(p)]
    /\ cache = None
    /\ pc = "off"
    /\ ret = NotCalled
    /\ reads = 0
    /\ excStage = "none"
    /\ ui = <<>>
    /\ grants_data = None
    /\ rendered = <<>>

\* the files at the start: any content of one file, the others ordinary
Init ==
    /\ \E p \in Paths :
         \E f \in (IF p \in GrantPaths THEN GrantFiles ELSE GrantmakerFiles) :
            disk = [q \in Paths |-> IF q = p THEN f ELSE BaseFile(q)]
    /\ cache = None
    /\ pc = "start"
    /\ ret = NotCalled
    /\ reads = 0
    /\ excStage = "none"
    /\ ui = <<>>
    /\ grants_data = None
    /\ rendered = <<>>
    /\ CatIdle /\ TrIdle /\ PageIdle /\ ConcIdle

Next ==
    \/ MainLoadData
    \/ MainCheck
    \/ MainCategorize
    \/ MainRender
    \/ MainTab6
    \/ MainTab7
    \/ MainTail
    \/ Rerun
    \/ WriteFile
    \/ ClearCache

Spec == Init /\ [][Next]_vars

----------------------------------------------------------------------------
(* The load on files of one shape: every organization supplies the same     *)
(* number of grant rows, of which the same number has an amount that is no  *)
(* number; where those rows stand, and the amounts of the others, vary from *)
(* file to file.                                                            *)

MaxScenarioRows == 2

ScenarioRows ==
    {[h \in GrantHeader |-> IF h = "Grant Amount" THEN a ELSE OrdinaryText(h)] :
        a \in {T_50, T_7, T_abc}}

NonNumericAmounts(rows) ==
    LET non_numeric(r) == ~IsNumeric(r["Grant Amount"])
    IN  Len(SelectSeq(rows, non_numeric))

\* the grant files of N rows of which k have a non-numeric amount
ScenarioFiles(N, k) ==
    {[readable |-> TRUE, header |-> GrantHeader, rows |-> rs] :
        rs \in {x \in [1..N -> ScenarioRows] : NonNumericAmounts(x) = k}}

InitScenario ==
    /\ \E N \in 0..MaxScenarioRows : \E k \in 0..N :
          \E g \in [GrantPaths -> ScenarioFiles(N, k)] :
             disk = [q \in Paths |-> IF q \in GrantPaths THEN g[q] ELSE BaseFile(q)]
    /\ cache = None
    /\ pc = "start"
    /\ ret = NotCalled
    /\ reads = 0
    /\ excStage = "none"
    /\ ui = <<>>
    /\ grants_data = None
    /\ rendered = <<>>
    /\ CatIdle /\ TrIdle /\ PageIdle /\ ConcIdle

NextScenario ==
    \/ MainLoadData
    \/ MainCheck

SpecScenario == InitScenario /\ [][NextScenario]_vars

----------------------------------------------------------------------------
(* The load on files that name the same grantmakers in several              *)
(* organizations: the grants file of one organization and the grantmakers   *)
(* file of one organization (the same or another) vary in the grantmakers   *)
(* they name and in the assets they give.                                   *)

MaxJoinRows == 2

JoinGrantRows ==
    {[h \in GrantHeader |-> IF h = "Grantmaker Name" THEN n ELSE OrdinaryText(h)] :
        n \in {T_A, T_B}}

JoinGrantmakerRows ==
    {[h \in GrantmakerHeader |->
        IF h = "Grantmaker Name" THEN n
        ELSE IF h = "Total Assets" THEN a
        ELSE OrdinaryText(h)] : n \in {T_A, T_B}, a \in {T_1000, T_7}}

JoinFiles(header, rows) ==
    {[readable |-> TRUE, header |-> header, rows |-> rs] :
        rs \in SeqsUpTo(rows, MaxJoinRows)}

InitJoin ==
    /\ \E c1 \in CompanyNames, c2 \in CompanyNames :
          \E g \in JoinFiles(GrantHeader, JoinGrantRows) :
             \E gm \in JoinFiles(GrantmakerHeader, JoinGrantmakerRows) :
                disk = [q \in Paths |->
                          IF q = grants_path(c1) THEN g
                          ELSE IF q = grantmakers_path(c2) THEN gm
                          ELSE BaseFile(q)]
    /\ cache = None
    /\ pc = "start"
    /\ ret = NotCalled
    /\ reads = 0
    /\ excStage = "none"
    /\ ui = <<>>
    /\ grants_data = None
    /\ rendered = <<>>
    /\ CatIdle /\ TrIdle /\ PageIdle /\ ConcIdle

NextJoin ==
    \/ MainLoadData
    \/ MainCheck

SpecJoin == InitJoin /\ [][NextJoin]_vars

----------------------------------------------------------------------------
(* calculate_transformations as a function of its series                    *)

MaxValues == 3

Values == {Num(0 - 5), Num(0), Num(7), Num(50), NaN}

\* line 157: one call on the series tr_data
TransformCall ==
    /\ tr_result = None
    /\ tr_result' = Some(calculate_transformations(tr_data))
    /\ UNCHANGED tr_data
    /\ UNCHANGED <<mainVars, catVars, pageVars, concVars>>

InitTransform ==
    /\ MainIdle /\ CatIdle /\ PageIdle /\ ConcIdle
    /\ tr_data \in SeqsUpTo(Values, MaxValues)
    /\ tr_result = None

NextTransform == TransformCall

SpecTransform == InitTransform /\ [][NextTransform]_vars

----------------------------------------------------------------------------
(* The other pages: scripts that check their directories and show charts,   *)
(* tables and images from files.  A script is the sequence of its           *)
(* statements that touch the file system, between the sections of text      *)
(* around them; of the many statements of one kind a page has, the first    *)
(* ones are kept, in the order of the source.                               *)

\* if not DIR.exists(): st.error(...); st.info(...) (infos times); st.stop()
require_dir(dir, infos) ==
    [op |-> "require_dir", dir |-> dir, file |-> "", infos |-> infos]

\* st.title / st.markdown
text_section(name) ==
    [op |-> "section", dir |-> "", file |-> name, infos |-> 0]

\* load_plotly_chart, load_csv_table with its caller, show_image, and
\* if img_path.exists(): st.image(...) else: st.warning(...)
asset_or_warning(dir, file) ==
    [op |-> "asset_or_warning", dir |-> dir, file |-> file, infos |-> 0]

\* if img_path.exists(): st.image(...)
asset_if_exists(dir, file) ==
    [op |-> "asset_if_exists", dir |-> dir, file |-> file, infos |-> 0]

\* pd.read_csv(os.path.join(DATA_DIR, file)) at module level; the table is
\* shown by the statements that follow
read_csv_table(dir, file) ==
    [op |-> "read_csv", dir |-> dir, file |-> file, infos |-> 0]

Q1_script ==
    << require_dir("plotly_charts", 1),
       text_section("Q1 title"),
       asset_or_warning("plotly_charts", "01_disease_top_level_count.html"),
       asset_or_warning("plotly_charts", "02_disease_top_level_funding.html"),
       text_section("Q1 footer") >>

Q2_script ==
    << require_dir("plotly_charts", 1),
       require_dir("csv_tables", 1),
       text_section("Q2 title"),
       asset_or_warning("plotly_charts", "05_disease_institution_count_mix.html"),
       asset_or_warning("csv_tables", "disease_03_table.csv"),
       text_section("Q2 footer") >>

Q3_script ==
    << require_dir("images", 0),
       text_section("Q3 title"),
       asset_or_warning("images", "q3_2_dual_axis_count_size.png"),
       asset_or_warning("images", "q3_2_total_funding_line.png"),
       text_section("Q3 footer") >>

Q4_script ==
    << require_dir("images", 0),
       text_section("Q4 title"),
       asset_or_warning("images", "Feature_importance_Overall.png"),
       asset_if_exists("images", "Feature_importance_Kaiser.png"),
       text_section("Q4 footer") >>

Q5_script ==
    << text_section("Q5 title"),
       read_csv_table("Sreamlit_data", "Org_loc.csv"),
       read_csv_table("Sreamlit_data", "ic_location_map.csv"),
       text_section("Q5 footer") >>

Q6_script ==
    << require_dir("q6_images", 2),
       text_section("Q6 title"),
       asset_or_warning("q6_images", "01_disease_top15_count.png"),
       asset_or_warning("q6_images", "02_disease_top15_funding.png"),
       text_section("Q6 footer") >>

Pages == {"Q1", "Q2", "Q3", "Q4", "Q5", "Q6"}

Script(name) ==
    CASE name = "Q1" -> Q1_script
      [] name = "Q2" -> Q2_script
      [] name = "Q3" -> Q3_script
      [] name = "Q4" -> Q4_script
      [] name = "Q5" -> Q5_script
      [] name = "Q6" -> Q6_script

\* Path.exists() and the opening of a file: the file is there, in a
\* directory that is there
exists(files, dir, file) == dir \in files.dirs /\ <<dir, file>> \in files.files

Element(kind, about) == [kind |-> kind, about |-> about]

Continue(out) == [out |-> out, halt |-> "no"]
Halt(out, how) == [out |-> out, halt |-> how]

\* one statement of a script on the file system files: the elements it
\* produces, and whether the script goes on, stops (st.stop) or ends on an
\* exception nothing catches
run_statement(st, files) ==
    CASE st.op = "require_dir" ->
            IF st.dir \in files.dirs THEN Continue(<<>>)
            ELSE Halt(<<Element("error", st.dir)>>
                        \o [i \in 1..st.infos |-> Element("info", st.dir)], "stopped")
      [] st.op = "section" -> Continue(<<Element("text", st.file)>>)
      [] st.op = "asset_or_warning" ->
            IF exists(files, st.dir, st.file)
            THEN Continue(<<Element("asset", st.file)>>)
            ELSE Continue(<<Element("warning", st.file)>>)
      [] st.op = "asset_if_exists" ->
            IF exists(files, st.dir, st.file)
            THEN Continue(<<Element("asset", st.file)>>)
            ELSE Continue(<<>>)
      [] st.op = "read_csv" ->
            IF exists(files, st.dir, st.file)
            THEN Continue(<<Element("asset", st.file)>>)
            ELSE Halt(<<Element("exception", st.file)>>, "raised")

\* the script goes on after the statement, or has ended
PageAdvance(r, last) ==
    /\ page_out' = page_out \o r.out
    /\ page_halt' = IF r.halt # "no" THEN r.halt ELSE IF last THEN "done" ELSE "no"
    /\ page_pc' = page_pc + 1
    /\ UNCHANGED <<fs, page>>
    /\ UNCHANGED <<mainVars, catVars, trVars, concVars>>

\* the next statement of the running script
PageStep ==
    /\ page_halt = "no"
    /\ page_pc <= Len(Script(page))
    /\ PageAdvance(run_statement(Script(page)[page_pc], fs), page_pc = Len(Script(page)))

DirsOf(name) ==
    {Script(name)[i].dir : i \in {j \in 1..Len(Script(name)) : Script(name)[j].dir # ""}}

FilesOf(name) ==
    {<<Script(name)[i].dir, Script(name)[i].file>> :
        i \in {j \in 1..Len(Script(name)) :
                  Script(name)[j].op \in {"asset_or_warning", "asset_if_exists", "read_csv"}}}

\* a page is opened on a file system that has any of its directories and, in
\* the directories it has, any of the page's files
InitPages ==
    /\ MainIdle /\ CatIdle /\ TrIdle /\ ConcIdle
    /\ page \in Pages
    /\ \E ds \in SUBSET DirsOf(page) :
          \E fl \in SUBSET {f \in FilesOf(page) : f[1] \in ds} :
             fs = [dirs |-> ds, files |-> fl]
    /\ page_pc = 1
    /\ page_out = <<>>
    /\ page_halt = "no"

NextPages == PageStep

SpecPages == InitPages /\ [][NextPages]_vars

----------------------------------------------------------------------------
(* categorize_grants as a function of its table: the table is any table    *)
(* with a Description column, the function is called on it twice.          *)

MaxCatRows == 1

F_hospital == <<"h", "o", "s", "p", "i", "t", "a", "l">>
F_Scholarship == <<"S", "c", "h", "o", "l", "a", "r", "s", "h", "i", "p">>
F_service == <<"s", "e", "r", "v", "i", "c", "e">>
F_STUDY == <<"S", "T", "U", "D", "Y">>
F_art == <<"a", "r", "t">>
F_conservation == <<"c", "o", "n", "s", "e", "r", "v", "a", "t", "i", "o", "n">>
F_he == <<"h", "e">>

Fragments == {F_hospital, F_Scholarship, F_service, F_STUDY, F_art, F_conservation, F_he}

\* the empty text, a fragment, or two fragments one after the other
Descriptions == {<<>>} \cup Fragments \cup {a \o b : a \in Fragments, b \in Fragments}

DescriptionCells == {NaN, Num(7)} \cup {Str(d) : d \in Descriptions}

CatTables ==
    {[columns |-> {"Description", "Grant.Amount"}, rows |-> rs] :
        rs \in SeqsUpTo({[c \in {"Description", "Grant.Amount"} |->
                            IF c = "Description" THEN d ELSE Num(50)] :
                                d \in DescriptionCells}, MaxCatRows)}

\* the first call: the Category column is assigned on the caller's table
\* (line 153) and the table is returned
CatFirstCall ==
    /\ cat_pc = "first"
    /\ cat_first' = Some(categorize_grants(grants_df))
    /\ grants_df' = categorize_grants(grants_df)
    /\ cat_pc' = "second"
    /\ UNCHANGED cat_second
    /\ UNCHANGED <<mainVars, trVars, pageVars, concVars>>

\* the second call, on the same table
CatSecondCall ==
    /\ cat_pc = "second"
    /\ cat_second' = Some(categorize_grants(grants_df))
    /\ grants_df' = categorize_grants(grants_df)
    /\ cat_pc' = "done"
    /\ UNCHANGED cat_first
    /\ UNCHANGED <<mainVars, trVars, pageVars, concVars>>

InitCat ==
    /\ MainIdle /\ TrIdle /\ PageIdle /\ ConcIdle
    /\ grants_df \in CatTables
    /\ cat_first = None
    /\ cat_second = None
    /\ cat_pc = "first"

NextCat ==
    \/ CatFirstCall
    \/ CatSecondCall

SpecCat == InitCat /\ [][NextCat]_vars

----------------------------------------------------------------------------
(* categorize_grants on tables of several rows that differ in their         *)
(* description and in their amount                                          *)

MaxFrameRows == 2

FrameRows ==
    {[c \in {"Description", "Grant.Amount"} |-> IF c = "Description" THEN d ELSE a] :
        d \in {NaN, Str(F_art), Str(F_hospital), Str(F_he)}, a \in {Num(50), Num(7)}}

FrameTables ==
    {[columns |-> {"Description", "Grant.Amount"}, rows |-> rs] :
        rs \in SeqsUpTo(FrameRows, MaxFrameRows)}

InitFrame ==
    /\ MainIdle /\ TrIdle /\ PageIdle /\ ConcIdle
    /\ grants_df \in FrameTables
    /\ cat_first = None
    /\ cat_second = None
    /\ cat_pc = "first"

NextFrame ==
    \/ CatFirstCall
    \/ CatSecondCall

SpecFrame == InitFrame /\ [][NextFrame]_vars

----------------------------------------------------------------------------
(* Properties of load_and_clean_data *)

Called == ret # NotCalled
Loaded == Called /\ ~ret[1].isNone

\* the latest call read the files, so ret was computed from the present disk
\* (files are modified between script runs only)
FreshCall == Called /\ reads > 0

\* C1: after a successful load, no row of the combined grants table has a
\* null Grant.Amount or a null Year.Authorized.
C1_NoNullAmountOrYear ==
    Loaded =>
        \A i \in 1..Len(ret[1].v.rows) :
            /\ ~isna(ret[1].v.rows[i]["Grant.Amount"])
            /\ ~isna(ret[1].v.rows[i]["Year.Authorized"])

\* a successful load of files in which a grant row has an unparseable amount
\* or an empty year
C1_Witness ==
    /\ Loaded
    /\ FreshCall
    /\ \E p \in GrantPaths : \E i \in 1..Len(disk[p].rows) :
          \/ disk[p].rows[i]["Grant Amount"] = T_abc
          \/ disk[p].rows[i]["Year Authorized"] = T_empty

\* C2: after a successful load the combined merged table has exactly as many
\* rows as the combined grants table, whatever the grantmaker tables hold.
C2_MergedRowCount ==
    Loaded => Len(ret[3].v.rows) = Len(ret[1].v.rows)

\* the grant row g has no row of its organization in the cleaned grantmaker table
Unmatched(g) ==
    ~\E k \in 1..Len(ret[2].v.rows) :
        /\ ret[2].v.rows[k]["Company"] = g["Company"]
        /\ ret[2].v.rows[k]["Grantmaker.Name"] = g["Grantmaker.Name"]

GrantPart(m) == [c \in ret[1].v.columns |-> m[c]]

\* C3: a cleaned grant row whose Grantmaker.Name matches no grantmaker row of
\* its organization is still in the merged table, with Total.Assets,
\* Total.Giving and State all null.
C3_UnmatchedKept ==
    Loaded =>
        \A i \in 1..Len(ret[1].v.rows) :
            Unmatched(ret[1].v.rows[i]) =>
                /\ \E j \in 1..Len(ret[3].v.rows) :
                      GrantPart(ret[3].v.rows[j]) = ret[1].v.rows[i]
                /\ \A j \in 1..Len(ret[3].v.rows) :
                      GrantPart(ret[3].v.rows[j]) = ret[1].v.rows[i] =>
                          \A c \in merge_attributes : isna(ret[3].v.rows[j][c])

C3_Witness ==
    /\ Loaded
    /\ \E i \in 1..Len(ret[1].v.rows) : Unmatched(ret[1].v.rows[i])
    /\ \E i \in 1..Len(ret[1].v.rows) : ~Unmatched(ret[1].v.rows[i])

\* C4: after a successful load, for every organization of the cleaning report
\* grants_original - grants_removed = grants_final.
C4_ReportArithmetic ==
    Loaded =>
        \A c \in DOMAIN ret[4].v :
            ret[4].v[c].grants_original - ret[4].v[c].grants_removed
                = ret[4].v[c].grants_final

\* a report in which an organization lost some of its rows and kept others
C4_Witness ==
    /\ Loaded
    /\ \E c \in DOMAIN ret[4].v :
          ret[4].v[c].grants_removed > 0 /\ ret[4].v[c].grants_final > 0

RequiredGrantHeader == {"Grant Amount", "Year Authorized", "Grantmaker Name"}
RequiredGrantmakerHeader == {"Total Assets", "Total Giving", "Grantmaker Name", "State"}

Defective(file, required) == ~file.readable \/ ~(required \subseteq file.header)

DiskDefective ==
    \E c \in CompanyNames :
        \/ Defective(disk[grants_path(c)], RequiredGrantHeader)
        \/ Defective(disk[grantmakers_path(c)], RequiredGrantmakerHeader)

\* C5: a call returns four results or four None, never a part; and when a
\* file is unreadable or lacks a required column the call returns four None.
C5_AllOrNothing ==
    Called =>
        /\ \/ \A i \in 1..4 : ret[i].isNone
           \/ \A i \in 1..4 : ~ret[i].isNone
        /\ (FreshCall /\ DiskDefective) => ret = NoneResult

\* a call that read all eight files, one of which lacks a required column
C5_Witness ==
    /\ FreshCall
    /\ reads = Len(ReadOrder)
    /\ DiskDefective
    /\ ret = NoneResult

\* the stage a message names
StageNamed(message) ==
    IF message.text = "Failed to load data. Please check the file paths."
    THEN "read" ELSE "none"

\* C6: when load_and_clean_data fails, what is delivered to the caller names
\* the stage that failed.
C6_CallerToldStage ==
    (pc = "done" /\ Called /\ ret = NoneResult) =>
        \/ \E i \in 1..4 : ~ret[i].isNone
        \/ \E k \in 1..Len(ui) : StageNamed(ui[k]) = excStage

\* C7: once the cache holds the result of a completed call, a later call
\* returns that result without reading a file, whatever the files hold now,
\* and the entry is replaced only by being cleared.
C7_Memoized ==
    [][ /\ (pc = "start" /\ pc' = "check" /\ ~cache.isNone) =>
              (ret' = cache.v.value /\ reads' = 0 /\ cache' = cache)
        /\ (~cache.isNone /\ cache' # cache) => cache'.isNone ]_vars

\* a call answered from the cache after a file has changed so that reading
\* the files again would give another result
C7_Witness ==
    /\ pc = "check"
    /\ reads = 0
    /\ ~cache.isNone
    /\ ret = cache.v.value
    /\ load_body(disk).value # ret

\* C24: a call that fails leaves its four None in the cache, and while that
\* entry is there a call returns the four None without reading a file,
\* whatever the files hold by then, and leaves the entry as it is.
C24_FailureMemoized ==
    [][ /\ (pc = "start" /\ pc' = "check" /\ ret' = NoneResult) =>
              (~cache'.isNone /\ cache'.v.value = NoneResult)
        /\ (pc = "start" /\ pc' = "check" /\ ~cache.isNone
                /\ cache.v.value = NoneResult) =>
              (ret' = NoneResult /\ reads' = 0 /\ cache' = cache) ]_vars

\* a call answered with the stored failure although the files are readable
\* again and a run of the function would return the tables
C24_Witness ==
    /\ pc = "check"
    /\ reads = 0
    /\ ret = NoneResult
    /\ ~cache.isNone /\ cache.v.value = NoneResult
    /\ \A p \in Paths : disk[p].readable
    /\ load_body(disk).value # NoneResult

\* the call has just returned to main()
JustReturned == pc = "check"

\* the rows of a file of which every cell under the columns cols is a number
ParseableRows(file, cols) ==
    LET parseable(r) == \A h \in cols : IsNumeric(r[h])
    IN  SelectSeq(file.rows, parseable)

\* the rows of the table df that carry the company tag c
RowsOfCompany(df, c) ==
    LET tagged(r) == r["Company"] = Str(<<c>>)
    IN  SelectSeq(df.rows, tagged)

\* the numbers of column col in rows, as the file spells them
NumbersOf(rows, h) == [i \in 1..Len(rows) |-> Num(ParseNumber(rows[i][h]))]
ColumnOf(rows, col) == [i \in 1..Len(rows) |-> rows[i][col]]

\* C11: when the files are readable and have the required columns, a cell of
\* Grant.Amount, Year.Authorized, Total.Assets or Total.Giving that is not a
\* number does not make the load fail: the load succeeds, each organization's
\* report counts exactly the rows with such a cell as removed, and the rows
\* without one are all in the cleaned tables, in their order.  (Stated of the
\* moment the call returns; what it returned stays as it is for the rest of
\* the script run.)
C11_CoercionNeverFails ==
    (JustReturned /\ FreshCall /\ ~DiskDefective) =>
        /\ Loaded
        /\ \A c \in CompanyNames :
              LET g == disk[grants_path(c)]
                  gm == disk[grantmakers_path(c)]
                  g_ok == ParseableRows(g, {"Grant Amount", "Year Authorized"})
                  gm_ok == ParseableRows(gm, {"Total Assets", "Total Giving"})
              IN  /\ ret[4].v[c].grants_removed = Len(g.rows) - Len(g_ok)
                  /\ ret[4].v[c].grantmakers_removed = Len(gm.rows) - Len(gm_ok)
                  /\ ColumnOf(RowsOfCompany(ret[1].v, c), "Grant.Amount")
                        = NumbersOf(g_ok, "Grant Amount")
                  /\ ColumnOf(RowsOfCompany(ret[1].v, c), "Year.Authorized")
                        = NumbersOf(g_ok, "Year Authorized")
                  /\ ColumnOf(RowsOfCompany(ret[2].v, c), "Total.Assets")
                        = NumbersOf(gm_ok, "Total Assets")
                  /\ ColumnOf(RowsOfCompany(ret[2].v, c), "Total.Giving")
                        = NumbersOf(gm_ok, "Total Giving")

\* a load of a file with two rows, one of which has a cell that is no number
C11_Witness ==
    /\ FreshCall
    /\ Loaded
    /\ \E p \in Paths :
          /\ Len(disk[p].rows) = 2
          /\ \E i \in 1..2 : \E h \in disk[p].header : disk[p].rows[i][h] = T_abc
          /\ \E c \in CompanyNames :
                ret[4].v[c].grants_removed + ret[4].v[c].grantmakers_removed = 1

\* every organization supplies N grant rows, k of them with a non-numeric
\* amount and the others with a valid amount and year, and readable
\* grantmaker files with the required columns
ScenarioHolds(N, k) ==
    /\ ~DiskDefective
    /\ \A c \in CompanyNames :
          /\ Len(disk[grants_path(c)].rows) = N
          /\ NonNumericAmounts(disk[grants_path(c)].rows) = k
          /\ Len(ParseableRows(disk[grants_path(c)], {"Grant Amount", "Year Authorized"}))
                = N - k

\* C18: when each of the four organizations supplies N grant rows of which
\* exactly k have a non-numeric amount, the load returns a combined grants
\* table of 4 * (N - k) rows and a report with grants_removed = k for each
\* organization.
C18_ScenarioCounts ==
    \A N \in 0..(MaxScenarioRows + 1) : \A k \in 0..N :
        (JustReturned /\ FreshCall /\ ScenarioHolds(N, k)) =>
            /\ Loaded
            /\ Len(ret[1].v.rows) = 4 * (N - k)
            /\ \A c \in CompanyNames : ret[4].v[c].grants_removed = k

\* two rows per organization, one of them with a non-numeric amount
C18_Witness ==
    /\ JustReturned /\ FreshCall /\ Loaded
    /\ ScenarioHolds(2, 1)
    /\ Len(ret[1].v.rows) = 4
    /\ \E c \in CompanyNames : disk[grants_path(c)].rows[1]["Grant Amount"] = T_abc
    /\ \E c \in CompanyNames : disk[grants_path(c)].rows[2]["Grant Amount"] = T_abc

CompanyTags == {Str(<<c>>) : c \in CompanyNames}

RowSet(rows) == {rows[i] : i \in 1..Len(rows)}

GrantRowsKept(c) ==
    ParseableRows(disk[grants_path(c)], {"Grant Amount", "Year Authorized"})

GrantmakerRowsKept(c) ==
    ParseableRows(disk[grantmakers_path(c)], {"Total Assets", "Total Giving"})

\* C21: after a successful load every row of the combined grants,
\* grantmakers and merged tables has a Company among the four organizations,
\* and the rows tagged with an organization are the rows kept from that
\* organization's files: the amounts (assets) of the rows tagged c are those
\* of the parseable rows of c's grants (grantmakers) file, and a merged row
\* tagged c extends a grants row tagged c.
C21_CompanyTags ==
    (JustReturned /\ FreshCall /\ Loaded) =>
        /\ \A t \in 1..3 : \A i \in 1..Len(ret[t].v.rows) :
              ret[t].v.rows[i]["Company"] \in CompanyTags
        /\ \A c \in CompanyNames :
              /\ ColumnOf(RowsOfCompany(ret[1].v, c), "Grant.Amount")
                    = NumbersOf(GrantRowsKept(c), "Grant Amount")
              /\ ColumnOf(RowsOfCompany(ret[2].v, c), "Total.Assets")
                    = NumbersOf(GrantmakerRowsKept(c), "Total Assets")
              /\ {GrantPart(m) : m \in RowSet(RowsOfCompany(ret[3].v, c))}
                    = RowSet(RowsOfCompany(ret[1].v, c))

\* a load in which the grants of one organization, and no other's, have the
\* amount 7, and the rows with that amount carry that organization's tag in
\* the grants and in the merged table
C21_Witness ==
    /\ JustReturned /\ FreshCall /\ Loaded
    /\ \E c \in CompanyNames \ {companies[1]} :
          /\ \E i \in 1..Len(disk[grants_path(c)].rows) :
                disk[grants_path(c)].rows[i]["Grant Amount"] = T_7
          /\ \E m \in RowSet(ret[3].v.rows) :
                m["Grant.Amount"] = Num(7) /\ m["Company"] = Str(<<c>>)
          /\ \E m \in RowSet(ret[3].v.rows) : m["Company"] # Str(<<c>>)

\* the rows of one company stand together in rows
Contiguous(rows) ==
    \A i \in 1..Len(rows) : \A k \in (i + 1)..Len(rows) :
        rows[i]["Company"] = rows[k]["Company"] =>
            \A j \in i..k : rows[j]["Company"] = rows[i]["Company"]

\* seq without the elements that repeat their predecessor
Collapse(seq) ==
    LET first_of_run(i) == i = 1 \/ seq[i] # seq[i - 1]
        at == {i \in 1..Len(seq) : first_of_run(i)}
        nth(n) == CHOOSE i \in at : Cardinality({j \in at : j <= i}) = n
    IN  [n \in 1..Cardinality(at) |-> seq[nth(n)]]

\* what a kept row of a grants file is in the table: its amount, year and
\* grantmaker
AsRead(rows) ==
    [i \in 1..Len(rows) |->
        <<Num(ParseNumber(rows[i]["Grant Amount"])),
          Num(ParseNumber(rows[i]["Year Authorized"])),
          rows[i]["Grantmaker Name"]>>]

AsCleaned(rows) ==
    [i \in 1..Len(rows) |->
        <<rows[i]["Grant.Amount"], rows[i]["Year.Authorized"],
          rows[i]["Grantmaker.Name"].s>>]

\* C22: in the combined grants table and in the combined merged table the
\* rows of one organization stand together, and they are the kept rows of
\* the organization's grants file in the order of the file (in the merged
\* table a grant with several matching grantmaker rows stands once for each,
\* one after the other).
C22_OrderPreserved ==
    (JustReturned /\ FreshCall /\ Loaded) =>
        /\ Contiguous(ret[1].v.rows)
        /\ Contiguous(ret[3].v.rows)
        /\ \A c \in CompanyNames :
              /\ AsCleaned(RowsOfCompany(ret[1].v, c)) = AsRead(GrantRowsKept(c))
              /\ Collapse(AsCleaned(RowsOfCompany(ret[3].v, c)))
                    = Collapse(AsRead(GrantRowsKept(c)))

\* a load of a grants file with two rows that are kept and differ
C22_Witness ==
    /\ JustReturned /\ FreshCall /\ Loaded
    /\ \E c \in CompanyNames \ {companies[1], companies[4]} :
          /\ Len(GrantRowsKept(c)) = 2
          /\ GrantRowsKept(c)[1] # GrantRowsKept(c)[2]
          /\ Len(Collapse(AsCleaned(RowsOfCompany(ret[3].v, c)))) = 2

\* the rows of a grantmakers file as they are in the table
GrantmakersAsRead(rows) ==
    [i \in 1..Len(rows) |->
        <<Num(ParseNumber(rows[i]["Total Assets"])),
          Num(ParseNumber(rows[i]["Total Giving"])),
          rows[i]["Grantmaker Name"]>>]

GrantmakersAsCleaned(rows) ==
    [i \in 1..Len(rows) |->
        <<rows[i]["Total.Assets"], rows[i]["Total.Giving"],
          rows[i]["Grantmaker.Name"].s>>]

\* C23: the rows of an organization in the combined grantmakers table are
\* the rows of its grantmakers file whose Total Assets and Total Giving are
\* both numbers, all of them and no other; the report counts them as
\* grantmakers_final, and grantmakers_original - grantmakers_removed equals
\* grantmakers_final.
C23_GrantmakerCleaning ==
    (JustReturned /\ FreshCall /\ Loaded) =>
        \A c \in CompanyNames :
            /\ GrantmakersAsCleaned(RowsOfCompany(ret[2].v, c))
                  = GrantmakersAsRead(GrantmakerRowsKept(c))
            /\ ret[4].v[c].grantmakers_original = Len(disk[grantmakers_path(c)].rows)
            /\ ret[4].v[c].grantmakers_final = Len(RowsOfCompany(ret[2].v, c))
            /\ ret[4].v[c].grantmakers_original - ret[4].v[c].grantmakers_removed
                  = ret[4].v[c].grantmakers_final

\* a grantmakers file of two rows, one with assets that are no number or
\* with no giving, of which the load kept the other
C23_Witness ==
    /\ JustReturned /\ FreshCall /\ Loaded
    /\ \E c \in CompanyNames :
          /\ Len(disk[grantmakers_path(c)].rows) = 2
          /\ \E i \in 1..2 :
                \/ disk[grantmakers_path(c)].rows[i]["Total Assets"] = T_abc
                \/ disk[grantmakers_path(c)].rows[i]["Total Giving"] = T_empty
          /\ ret[4].v[c].grantmakers_removed = 1
          /\ ret[4].v[c].grantmakers_final = 1

\* the rows of the grantmakers file of c that name the grantmaker of the
\* table row g
RawGrantmakerRows(c, g) ==
    LET named(r) == r["Grantmaker Name"] = g["Grantmaker.Name"].s
    IN  SelectSeq(disk[grantmakers_path(c)].rows, named)

\* the grantmaker of g is in the file of c and cleaning removed its every row
RemovedByCleaning(c, g) ==
    /\ RawGrantmakerRows(c, g) # <<>>
    /\ \A r \in RowSet(RawGrantmakerRows(c, g)) :
          ~(IsNumeric(r["Total Assets"]) /\ IsNumeric(r["Total Giving"]))

\* C25: a grant whose grantmaker is in the grantmakers file of its
\* organization only in rows that cleaning removed has, in the merged table,
\* null Total.Assets, Total.Giving and State, whatever State the file gives.
C25_JoinUsesCleaned ==
    (JustReturned /\ FreshCall /\ Loaded) =>
        \A c \in CompanyNames : \A m \in RowSet(RowsOfCompany(ret[3].v, c)) :
            RemovedByCleaning(c, m) =>
                \A a \in merge_attributes : isna(m[a])

\* a merged row of a grant whose grantmaker the file lists with a State and
\* cleaning removed
C25_Witness ==
    /\ JustReturned /\ FreshCall /\ Loaded
    /\ \E c \in CompanyNames : \E m \in RowSet(RowsOfCompany(ret[3].v, c)) :
          /\ RemovedByCleaning(c, m)
          /\ \E r \in RowSet(RawGrantmakerRows(c, m)) : r["State"] = T_MI
          /\ isna(m["State"])

\* the attributes the merged row m took from the row r of a grantmakers file
TakenFrom(m, r) ==
    /\ m["Total.Assets"] = Num(ParseNumber(r["Total Assets"]))
    /\ m["Total.Giving"] = Num(ParseNumber(r["Total Giving"]))
    /\ m["State"] = Str(r["State"])

\* the rows of the grantmakers file of c that cleaning keeps and that name
\* the grantmaker of m
OwnGrantmakerRows(c, m) ==
    LET named(r) == r["Grantmaker Name"] = m["Grantmaker.Name"].s
    IN  SelectSeq(GrantmakerRowsKept(c), named)

\* C26: the attributes of a merged row of organization c are those of a
\* row of c's own grantmakers file that names its grantmaker, and they are
\* all null when c's file has no such row, whatever the files of the other
\* organizations hold under that name.
C26_JoinPerOrganization ==
    (JustReturned /\ FreshCall /\ Loaded) =>
        \A c \in CompanyNames : \A m \in RowSet(RowsOfCompany(ret[3].v, c)) :
            IF OwnGrantmakerRows(c, m) = <<>>
            THEN \A a \in merge_attributes : isna(m[a])
            ELSE \E r \in RowSet(OwnGrantmakerRows(c, m)) : TakenFrom(m, r)

\* a grant of one organization names a grantmaker that only the file of
\* another organization lists, and its merged row has null attributes
C26_Witness ==
    /\ JustReturned /\ FreshCall /\ Loaded
    /\ \E c \in CompanyNames : \E m \in RowSet(RowsOfCompany(ret[3].v, c)) :
          /\ OwnGrantmakerRows(c, m) = <<>>
          /\ \E o \in CompanyNames \ {c} : OwnGrantmakerRows(o, m) # <<>>
          /\ \A a \in merge_attributes : isna(m[a])

RECURSIVE SumGrantsFinal(_, _)
SumGrantsFinal(reports, i) ==
    IF i > Len(companies) THEN 0
    ELSE reports[companies[i]].grants_final + SumGrantsFinal(reports, i + 1)

\* C29: after a successful load the report has one entry for each of the
\* organizations and no other, in every entry grants_removed lies between 0
\* and grants_original, and the grants_final of the entries add up to the
\* number of rows of the combined grants table.
C29_ReportConsistent ==
    (JustReturned /\ Loaded) =>
        /\ DOMAIN ret[4].v = CompanyNames
        /\ \A c \in CompanyNames :
              /\ 0 <= ret[4].v[c].grants_removed
              /\ ret[4].v[c].grants_removed <= ret[4].v[c].grants_original
        /\ SumGrantsFinal(ret[4].v, 1) = Len(ret[1].v.rows)

\* a load in which an organization lost one of two rows and the combined
\* table has the four rows left
C29_Witness ==
    /\ JustReturned /\ Loaded
    /\ \E c \in CompanyNames :
          /\ ret[4].v[c].grants_original = 2
          /\ ret[4].v[c].grants_removed = 1
    /\ Len(ret[1].v.rows) = 4

----------------------------------------------------------------------------
(* Properties of main() *)

Produced(event) == \E i \in 1..Len(rendered) : rendered[i] = event

RunEnded == pc \in {"done", "crashed"}

Warnings == {"warning: Merged data not available for hypothesis testing"}

Warned == \E w \in Warnings : Produced(w)

\* C12: a statistic of the page runs only behind a guard on its input: a run
\* that has rendered tabs 1-5 ends with tabs 6 to 9 rendered or, where the
\* input of a statistic does not allow it, with a warning in the place of that
\* section and the other sections rendered; it never ends on an exception.
C12_StatisticsGuarded ==
    (RunEnded /\ Loaded /\ Produced("tab5")) =>
        /\ pc = "done"
        /\ Produced("tab7") /\ Produced("tab8") /\ Produced("tab9")
        /\ \A section \in {"tab6", "H1", "H2", "H3"} : Produced(section) \/ Warned

\* C13: when load_and_clean_data has failed, the script run produces nothing
\* after the failure report: no section is rendered, categorize_grants and
\* calculate_transformations are not called, and the run ends at line 186.
C13_NothingAfterFailure ==
    (Called /\ ret[1].isNone) =>
        /\ pc \in {"check", "done"}
        /\ rendered = <<>>
        /\ grants_data = None

\* a script run that ended after a failed load and its report
C13_Witness ==
    /\ pc = "done"
    /\ ret = NoneResult
    /\ \E k \in 1..Len(ui) :
          ui[k].text = "Failed to load data. Please check the file paths."

\* C14: a script run whose load fails shows exactly one error message.
C14_OneErrorMessage ==
    (pc = "done" /\ Called /\ ret[1].isNone) => Len(ui) = 1

\* C30: whatever report a successful load produced, a file without rows
\* included, the script run renders the Data Cleaning tab with its retention
\* figures and does not end on an exception before it.
C30_RetentionRenders ==
    (RunEnded /\ Loaded /\ ~grants_data.isNone) => Produced("tab1")

\* C20: after a successful load every row of the combined grants table has a
\* Grant.Amount that is not negative.
C20_NonNegativeAmounts ==
    Loaded =>
        \A i \in 1..Len(ret[1].v.rows) :
            /\ ret[1].v.rows[i]["Grant.Amount"].kind = "num"
            /\ ret[1].v.rows[i]["Grant.Amount"].n >= 0

----------------------------------------------------------------------------
(* Concurrent renders.  Streamlit runs the script of every session in a     *)
(* thread of its own, in one process; the entries of st.cache_data are      *)
(* shared by the sessions.  A cached function computes under the lock of    *)
(* its cache, so the lookup, the run and the store of one call are one      *)
(* step.  An entry holds the pickled return value: a hit hands out a fresh  *)
(* unpickled copy, and the object a miss hands out is the computed one,     *)
(* which the entry does not share.                                          *)

MaxSessions == 2

Sessions == 1..MaxSessions

\* a cache that hands out the very object it holds (st.cache_resource)
returned_object_shared(call) == "entry"

\* the object a call of load_and_clean_data hands to its caller under
\* @st.cache_data (line 40): one of the caller's own
returned_object(call) == "own"

\* the combined grants table the cache entry holds
entry_table(c) == c.v.value[1]

\* the table the grants_data of session s names
held(s) == IF sess_ref[s] = "entry" THEN entry_table(cache) ELSE sess_table[s]

\* the cache entry after an assignment to a column of the table it holds
entry_with_table(c, df) ==
    Some([c.v EXCEPT !.value = <<Some(df), c.v.value[2], c.v.value[3], c.v.value[4]>>])

\* the session has the result of its load: without a table main returns
\* after its message (lines 184-186)
ConcLoaded(s, call, ref) ==
    /\ cache' = call.entry
    /\ sess_pc' = [sess_pc EXCEPT ![s] = IF call.value[1].isNone THEN "done" ELSE "loaded"]
    /\ sess_ref' = [sess_ref EXCEPT ![s] = IF call.value[1].isNone THEN "none" ELSE ref]
    /\ sess_table' = [sess_table EXCEPT ![s] = IF ref = "own" THEN call.value[1] ELSE None]
    /\ UNCHANGED <<cat_cache, disk, pc, ret, reads, excStage, ui, grants_data, rendered>>
    /\ UNCHANGED <<catVars, trVars, pageVars>>

\* lines 181-182 in session s
ConcLoad(s) ==
    /\ sess_pc[s] = "start"
    /\ ConcLoaded(s, load_and_clean_data(cache, disk),
                  returned_object(load_and_clean_data(cache, disk)))

\* the entry of categorize_grants answers a call on the table df
categorize_hit(c, df) == ~c.isNone /\ c.v.arg = df

\* line 189 in session s, answered by the entry of categorize_grants: the
\* function does not run and grants_data names a copy of the stored result
ConcCategorizeHit(s) ==
    /\ sess_pc[s] = "loaded"
    /\ categorize_hit(cat_cache, held(s).v)
    /\ sess_pc' = [sess_pc EXCEPT ![s] = "categorized"]
    /\ sess_ref' = [sess_ref EXCEPT ![s] = "own"]
    /\ sess_table' = [sess_table EXCEPT ![s] = Some(cat_cache.v.result)]
    /\ UNCHANGED <<cat_cache, mainVars, catVars, trVars, pageVars>>

\* line 189 in session s when categorize_grants runs: line 153 assigns the
\* Category column on the table the function was given, which is the table
\* grants_data names, and the result is stored
ConcCategorizeRun(s) ==
    /\ sess_pc[s] = "loaded"
    /\ ~categorize_hit(cat_cache, held(s).v)
    /\ "Description" \in held(s).v.columns
    /\ sess_pc' = [sess_pc EXCEPT ![s] = "categorized"]
    /\ cat_cache' = Some([arg |-> held(s).v, result |-> categorize_grants(held(s).v)])
    /\ IF sess_ref[s] = "entry"
       THEN /\ cache' = entry_with_table(cache, categorize_grants(held(s).v))
            /\ UNCHANGED sess_table
       ELSE /\ sess_table' = [sess_table EXCEPT ![s] = Some(categorize_grants(held(s).v))]
            /\ UNCHANGED cache
    /\ UNCHANGED <<sess_ref, disk, pc, ret, reads, excStage, ui, grants_data, rendered>>
    /\ UNCHANGED <<catVars, trVars, pageVars>>

\* the script run of session s has ended and an interaction starts the next
ConcRerun(s) ==
    /\ sess_pc[s] \in {"categorized", "done"}
    /\ sess_pc' = [sess_pc EXCEPT ![s] = "start"]
    /\ sess_ref' = [sess_ref EXCEPT ![s] = "none"]
    /\ sess_table' = [sess_table EXCEPT ![s] = None]
    /\ UNCHANGED <<cat_cache, mainVars, catVars, trVars, pageVars>>

\* the grant files of one organization the sessions may find: unreadable,
\* empty, or one row with an amount that is or is not a number
ConcFiles == {Unreadable} \cup ScenarioFiles(0, 0) \cup ScenarioFiles(1, 0) \cup ScenarioFiles(1, 1)

InitConc ==
    /\ \E p \in GrantPaths : \E f \in ConcFiles :
          disk = [q \in Paths |-> IF q = p THEN f ELSE BaseFile(q)]
    /\ cache = None
    /\ pc = "off"
    /\ ret = NotCalled
    /\ reads = 0
    /\ excStage = "none"
    /\ ui = <<>>
    /\ grants_data = None
    /\ rendered = <<>>
    /\ CatIdle /\ TrIdle /\ PageIdle
    /\ sess_pc = [s \in Sessions |-> "start"]
    /\ sess_ref = [s \in Sessions |-> "none"]
    /\ sess_table = [s \in Sessions |-> None]
    /\ cat_cache = None

NextConc ==
    \E s \in Sessions :
        \/ ConcLoad(s)
        \/ ConcCategorizeHit(s)
        \/ ConcCategorizeRun(s)
        \/ ConcRerun(s)

SpecConc == InitConc /\ [][NextConc]_vars

----------------------------------------------------------------------------
(* Properties of concurrent renders *)

\* the render of session s did not take the step
Stays(s) == sess_pc'[s] = sess_pc[s]

\* C17: once load_and_clean_data has stored its result, no step of any
\* session (a load, a categorize_grants call that runs or is answered from
\* its cache, a rerun) changes the stored result, and no step of one session
\* changes the table the grants_data of another session names.
C17_CacheNeverMutated ==
    [][/\ ~cache.isNone => cache' = cache
       /\ \A s \in Sessions :
             (Stays(s) /\ sess_pc[s] \in {"loaded", "categorized"}) =>
                 (IF sess_ref'[s] = "entry" THEN entry_table(cache') ELSE sess_table'[s])
                    = held(s)]_vars

\* two renders have loaded the table, the second from the cache, and one of
\* them has run categorize_grants on what it was given while the other still
\* holds its table
C17_Witness ==
    /\ ~cache.isNone /\ ~entry_table(cache).isNone
    /\ Len(entry_table(cache).v.rows) > 0
    /\ ~cat_cache.isNone
    /\ \E s, t \in Sessions :
          /\ sess_pc[s] = "categorized"
          /\ sess_pc[t] = "loaded"
          /\ "Category" \in held(s).v.columns
          /\ held(t) = entry_table(cache)

----------------------------------------------------------------------------
(* Properties of the other pages *)

PageEnded == page_halt # "no"

MissingDirs == DirsOf(page) \ fs.dirs

Count(kind, about) ==
    Cardinality({k \in 1..Len(page_out) : page_out[k] = Element(kind, about)})

\* C15: when a directory the page depends on is missing, the page has ended
\* by stopping itself, not on an exception; it has shown an error message
\* that names a missing directory, and nothing but that message's notes
\* after it.
C15_MissingDirHalts ==
    (PageEnded /\ MissingDirs # {}) =>
        /\ page_halt = "stopped"
        /\ \E k \in 1..Len(page_out) :
              /\ page_out[k].kind = "error"
              /\ page_out[k].about \in MissingDirs
              /\ \A j \in (k + 1)..Len(page_out) : page_out[j].kind = "info"

\* C16: when the directories exist and a file of the page is missing, the
\* page runs to its end without an exception, the missing file is answered
\* by exactly one warning that names it, and every text section and every
\* file that is there is rendered.
C16_MissingAssetWarns ==
    (PageEnded /\ MissingDirs = {}) =>
        /\ page_halt = "done"
        /\ \A f \in FilesOf(page) :
              IF f \in fs.files
              THEN Count("asset", f[2]) = 1 /\ Count("warning", f[2]) = 0
              ELSE Count("asset", f[2]) = 0 /\ Count("warning", f[2]) = 1
        /\ \A i \in 1..Len(Script(page)) :
              Script(page)[i].op = "section" => Count("text", Script(page)[i].file) = 1

----------------------------------------------------------------------------
(* Properties of calculate_transformations *)

RECURSIVE StrictlyPositive(_)
StrictlyPositive(series) ==
    IF series = <<>> THEN <<>>
    ELSE (IF Head(series).kind = "num" /\ Head(series).n > 0
          THEN <<Head(series)>> ELSE <<>>) \o StrictlyPositive(Tail(series))

Transformed == ~tr_result.isNone /\ ~tr_result.v.raised

\* C19: when calculate_transformations returns, 'original' is the strictly
\* positive values of the input in their order, 'boxcox', 'log' and 'log10'
\* have its length, and each of the three transforms was applied to the
\* strictly positive values and to nothing else.
C19_PositiveOnly ==
    Transformed =>
        LET t == tr_result.v
            positive == StrictlyPositive(tr_data)
        IN  /\ t.original = positive
            /\ Len(t.boxcox) = Len(positive)
            /\ Len(t.log) = Len(positive)
            /\ Len(t.log10) = Len(positive)
            /\ \A i \in 1..Len(positive) :
                  /\ t.boxcox[i] = [fn |-> "boxcox", arg |-> positive[i]]
                  /\ t.log[i] = [fn |-> "log", arg |-> positive[i]]
                  /\ t.log10[i] = [fn |-> "log10", arg |-> positive[i]]

\* a series with a zero, a negative value and two different positive values
C19_Witness ==
    /\ Transformed
    /\ Len(tr_result.v.original) = 2
    /\ Len(tr_data) > 2
    /\ \E i \in 1..Len(tr_data) : tr_data[i].kind = "num" /\ tr_data[i].n <= 0

----------------------------------------------------------------------------
(* Properties of categorize_grants *)

Labels ==
    {"Healthcare", "Education", "Community Development", "Research",
     "Arts & Culture", "Environment", "Uncategorized", "Other"}

Categorized == cat_pc \in {"second", "done"}

\* C8: every row gets exactly one non-null label of the fixed set, and a
\* second call on the same table gives the same labels row by row.
C8_TotalAndDeterministic ==
    /\ Categorized =>
          /\ Len(cat_first.v.rows) = Len(grants_df.rows)
          /\ \A i \in 1..Len(cat_first.v.rows) :
                \E l \in Labels : cat_first.v.rows[i]["Category"] = Label(l)
    /\ cat_pc = "done" =>
          /\ Len(cat_second.v.rows) = Len(cat_first.v.rows)
          /\ \A i \in 1..Len(cat_first.v.rows) :
                cat_second.v.rows[i]["Category"] = cat_first.v.rows[i]["Category"]

C8_Witness ==
    /\ cat_pc = "done"
    /\ \E i \in 1..Len(cat_second.v.rows) :
          /\ ~isna(cat_second.v.rows[i]["Description"])
          /\ cat_second.v.rows[i]["Category"] = Label("Other")

\* the keyword sets in the order of the contract
KeywordSets ==
    << [words |-> healthcare_words, label |-> "Healthcare"],
       [words |-> education_words, label |-> "Education"],
       [words |-> community_words, label |-> "Community Development"],
       [words |-> research_words, label |-> "Research"],
       [words |-> arts_words, label |-> "Arts & Culture"],
       [words |-> environment_words, label |-> "Environment"] >>

Matches(k, desc) == any_word_in(KeywordSets[k].words, lower(str(desc)))

\* C9: a description gets the label of the earliest keyword set, in the order
\* Healthcare, Education, Community Development, Research, Arts & Culture,
\* Environment, of which it contains a keyword, wherever the keywords stand
\* and whatever their letter case.
C9_FirstMatchWins ==
    Categorized =>
        \A i \in 1..Len(cat_first.v.rows) :
            LET d == cat_first.v.rows[i]["Description"] IN
            ~isna(d) =>
                \A k \in 1..Len(KeywordSets) :
                    (Matches(k, d) /\ \A j \in 1..(k - 1) : ~Matches(j, d)) =>
                        cat_first.v.rows[i]["Category"] = Label(KeywordSets[k].label)

\* "Scholarshiphospital": the Education keyword stands first, with a capital
C9_Witness ==
    /\ Categorized
    /\ \E i \in 1..Len(cat_first.v.rows) :
          /\ cat_first.v.rows[i]["Description"] = Str(F_Scholarship \o F_hospital)
          /\ cat_first.v.rows[i]["Category"] = Label("Healthcare")

\* C10: a null or empty description is labeled Uncategorized, a non-empty
\* description that matches no keyword set is labeled Other.
C10_UncategorizedAndOther ==
    Categorized =>
        \A i \in 1..Len(cat_first.v.rows) :
            LET d == cat_first.v.rows[i]["Description"]
                c == cat_first.v.rows[i]["Category"]
            IN  /\ (isna(d) \/ d = Str(<<>>)) => c = Label("Uncategorized")
                /\ (~isna(d) /\ d # Str(<<>>)
                        /\ \A k \in 1..Len(KeywordSets) : ~Matches(k, d)) =>
                      c = Label("Other")

\* C27: a call of categorize_grants returns the rows of its input, in their
\* order and with the values of every column but Category as they were,
\* with the Category column added; and a call on the table a call returned
\* returns that table, Category values included.
C27_OnlyCategoryChanges ==
    [][ /\ (cat_pc = "first" /\ cat_pc' = "second") =>
              /\ cat_first'.v.columns = grants_df.columns \cup {"Category"}
              /\ Len(cat_first'.v.rows) = Len(grants_df.rows)
              /\ \A i \in 1..Len(grants_df.rows) :
                    \A c \in grants_df.columns \ {"Category"} :
                        cat_first'.v.rows[i][c] = grants_df.rows[i][c]
        /\ (cat_pc = "second" /\ cat_pc' = "done") =>
              /\ cat_second'.v = cat_first.v
              /\ cat_second'.v = grants_df ]_vars

\* two calls on a table of two rows, the first without a description, that
\* differ in their amounts and got different labels
C27_Witness ==
    /\ cat_pc = "done"
    /\ Len(cat_second.v.rows) = 2
    /\ isna(cat_second.v.rows[1]["Description"])
    /\ cat_second.v.rows[1]["Grant.Amount"] # cat_second.v.rows[2]["Grant.Amount"]
    /\ cat_second.v.rows[1]["Category"] # cat_second.v.rows[2]["Category"]
    /\ cat_second = cat_first

\* word occurs in text: text is some text, word, some text
OccursIn(word, text) ==
    \E i \in 1..Len(text) : \E j \in i..Len(text) : SubSeq(text, i, j) = word

SetOccurs(k, text) == \E w \in KeywordSets[k].words : OccursIn(w, text)

\* C28: a description that is not null gets the label of the first keyword
\* set of which a keyword occurs somewhere in its lower-cased text, inside a
\* longer word or not, and Other when no keyword occurs anywhere in it.
C28_SubstringMatch ==
    Categorized =>
        \A i \in 1..Len(cat_first.v.rows) :
            LET d == cat_first.v.rows[i]["Description"]
                l == cat_first.v.rows[i]["Category"]
            IN  ~isna(d) =>
                  /\ \A k \in 1..Len(KeywordSets) :
                        (l = Label(KeywordSets[k].label)) <=>
                            /\ SetOccurs(k, lower(str(d)))
                            /\ \A j \in 1..(k - 1) : ~SetOccurs(j, lower(str(d)))
                  /\ (l = Label("Other")) <=>
                        \A k \in 1..Len(KeywordSets) : ~SetOccurs(k, lower(str(d)))

\* "heart": the only keyword in it is "art", inside the word
C28_Witness ==
    /\ Categorized
    /\ \E i \in 1..Len(cat_first.v.rows) :
          /\ cat_first.v.rows[i]["Description"] = Str(F_he \o F_art)
          /\ cat_first.v.rows[i]["Category"] = Label("Arts & Culture")

====
